---- MODULE Spec2Model ----
(***************************************************************************)
(* Model of src/main.go: a build-pipeline step that posts one message to a *)
(* Slack incoming webhook.  The process reads its settings from the        *)
(* environment, validates them, builds a JSON payload whose attributes are *)
(* the normal or the on-error variants, issues one HTTP POST and maps the  *)
(* response status to an exit code.                                        *)
(*                                                                         *)
(* Representation.                                                         *)
(*   - A Go string is a TLA+ string.                                       *)
(*   - A Go *string, a Go error, an environment variable that may be       *)
(*     unset, the HTTP response and the exit code are options: <<>> is     *)
(*     nil / unset / none yet, <<v>> holds v.                              *)
(*   - A Go slice is a sequence.                                           *)
(*   - Console output (fmt.Println, configs.print) is not state of the     *)
(*     model; IsDebugMode, which only selects console output, is resolved  *)
(*     and carried in configs but drives nothing else, as in the source.   *)
(***************************************************************************)
EXTENDS Integers, Sequences, FiniteSets, TLC

VARIABLES
    env,         \* the process environment: variable name -> option of string
    configs,     \* main's ConfigsModel
    pc,          \* position of main
    err,         \* the error returned by configs.validate()
    reqParams,   \* the RequestParams struct built by CreatePayloadParam
    marshalErr,  \* the error json.Marshal returned inside CreatePayloadParam
    payload,     \* reqParamsJSONString in main
    posts,       \* the HTTP POSTs issued so far: sequence of [url, payload]
    resp,        \* option: the status code of the HTTP response received
    exitCode     \* option: the argument of the os.Exit call that ended the process

vars == <<env, configs, pc, err, reqParams, marshalErr, payload, posts, resp, exitCode>>

----------------------------------------------------------------------------
(* Options: nil pointers, nil errors, unset variables. *)

Nil == <<>>

Ptr(s) == <<s>>

Deref(p) == p[1]

----------------------------------------------------------------------------
(* Constants of the source. *)

formattingModeAttachment == "attachment"

formattingModeText == "text"

StatusOK == 200

----------------------------------------------------------------------------
(* The environments explored: each variable is unset or set to one of a    *)
(* few values.  The values hold no character that encoding/json escapes.   *)

Opt(values) == {Nil} \cup { Ptr(v) : v \in values }

Envs ==
    [ webhook_url            : Opt({ "https://hooks.slack.com/services/T0/B0/X0" }),
      channel                : Opt({ "#ci" }),
      from_username          : Opt({ "bitrise" }),
      from_username_on_error : Opt({ "bitrise-failed" }),
      message                : Opt({ "Build OK" }),
      message_on_error       : Opt({ "Build FAILED" }),
      formatting_mode        : Opt({ "text", "attachment", "markdown", "Text" }),
      emoji                  : Opt({ ":rocket:" }),
      emoji_on_error         : Opt({ ":boom:" }),
      color                  : Opt({ "good" }),
      color_on_error         : Opt({ "danger" }),
      icon_url               : Opt({ "https://example.com/ok.png" }),
      icon_url_on_error      : Opt({ "https://example.com/failed.png" }),
      is_debug_mode          : Opt({ "yes" }),
      STEPLIB_BUILD_STATUS   : Opt({ "", "0", "1" }) ]

(* os.Getenv: the value of the variable, "" when it is unset. *)
Getenv(e, name) == IF e[name] = Nil THEN "" ELSE Deref(e[name])

(* The HTTP status codes the webhook may answer with. *)
Statuses == { 200, 201, 404, 500 }

----------------------------------------------------------------------------
(* ConfigsModel and its construction from the environment. *)

ZeroConfigs ==
    [ WebhookURL |-> "", Channel |-> "", FromUsername |-> "",
      FromUsernameOnError |-> "", Message |-> "", MessageOnError |-> "",
      FormattingMode |-> "", Color |-> "", ColorOnError |-> "", Emoji |-> "",
      EmojiOnError |-> "", IconURL |-> "", IconURLOnError |-> "",
      IsDebugMode |-> FALSE, IsBuildFailed |-> FALSE ]

(* Faulty variant: the build counts as failed only when the status is "1". *)
createConfigsModelFromEnvs_FailedOnlyOnOne(e) ==
    [ WebhookURL          |-> Getenv(e, "webhook_url"),
      Channel             |-> Getenv(e, "channel"),
      FromUsername        |-> Getenv(e, "from_username"),
      FromUsernameOnError |-> Getenv(e, "from_username_on_error"),
      Message             |-> Getenv(e, "message"),
      MessageOnError      |-> Getenv(e, "message_on_error"),
      FormattingMode      |-> Getenv(e, "formatting_mode"),
      Emoji               |-> Getenv(e, "emoji"),
      EmojiOnError        |-> Getenv(e, "emoji_on_error"),
      Color               |-> Getenv(e, "color"),
      ColorOnError        |-> Getenv(e, "color_on_error"),
      IconURL             |-> Getenv(e, "icon_url"),
      IconURLOnError      |-> Getenv(e, "icon_url_on_error"),
      IsDebugMode         |-> (Getenv(e, "is_debug_mode") = "yes"),
      IsBuildFailed       |-> (Getenv(e, "STEPLIB_BUILD_STATUS") = "1") ]

createConfigsModelFromEnvs(e) ==
    [ WebhookURL          |-> Getenv(e, "webhook_url"),
      Channel             |-> Getenv(e, "channel"),
      FromUsername        |-> Getenv(e, "from_username"),
      FromUsernameOnError |-> Getenv(e, "from_username_on_error"),
      Message             |-> Getenv(e, "message"),
      MessageOnError      |-> Getenv(e, "message_on_error"),
      FormattingMode      |-> Getenv(e, "formatting_mode"),
      Emoji               |-> Getenv(e, "emoji"),
      EmojiOnError        |-> Getenv(e, "emoji_on_error"),
      Color               |-> Getenv(e, "color"),
      ColorOnError        |-> Getenv(e, "color_on_error"),
      IconURL             |-> Getenv(e, "icon_url"),
      IconURLOnError      |-> Getenv(e, "icon_url_on_error"),
      IsDebugMode         |-> (Getenv(e, "is_debug_mode") = "yes"),
      IsBuildFailed       |-> (Getenv(e, "STEPLIB_BUILD_STATUS") # "0") ]

----------------------------------------------------------------------------
(* ConfigsModel.validate: nil, or the error of the first failing check. *)

ErrorsNew(msg) == Ptr(msg)

(* Faulty variant: the message is checked before the webhook URL. *)
validate_MessageFirst(c) ==
    IF c.Message = "" THEN ErrorsNew("No Message parameter specified!")
    ELSE IF c.WebhookURL = "" THEN ErrorsNew("No Webhook URL parameter specified!")
    ELSE IF c.Color = "" THEN ErrorsNew("No Color parameter specified!")
    ELSE IF c.FormattingMode \in {formattingModeText, formattingModeAttachment} THEN Nil
    ELSE IF c.FormattingMode = "" THEN ErrorsNew("No FormattingMode parameter specified!")
    ELSE ErrorsNew("Invalid FormattingMode: " \o c.FormattingMode)

validate(c) ==
    IF c.WebhookURL = "" THEN ErrorsNew("No Webhook URL parameter specified!")
    ELSE IF c.Message = "" THEN ErrorsNew("No Message parameter specified!")
    ELSE IF c.Color = "" THEN ErrorsNew("No Color parameter specified!")
    ELSE IF c.FormattingMode \in {formattingModeText, formattingModeAttachment} THEN Nil
    ELSE IF c.FormattingMode = "" THEN ErrorsNew("No FormattingMode parameter specified!")
    ELSE ErrorsNew("Invalid FormattingMode: " \o c.FormattingMode)

----------------------------------------------------------------------------
(* RequestParams, AttachmentItemModel and their JSON encoding.             *)

ZeroRequestParams ==
    [ Text |-> "", Attachments |-> <<>>, Channel |-> Nil, Username |-> Nil,
      EmojiIcon |-> Nil, IconURL |-> Nil ]

(* encoding/json of a string: the text between double quotes. *)
JSONString(s) == "\"" \o s \o "\""

(* Faulty variant: the nil pointer is encoded as the empty string. *)
JSONPtr_EmptyString(p) == IF p = Nil THEN JSONString("") ELSE JSONString(Deref(p))

(* encoding/json of a *string without omitempty: null for the nil pointer. *)
JSONPtr(p) == IF p = Nil THEN "null" ELSE JSONString(Deref(p))

(* The members "key":value of a JSON object, joined by commas in braces.   *)
RECURSIVE JSONJoin(_)
JSONJoin(texts) ==
    IF texts = <<>> THEN ""
    ELSE IF Len(texts) = 1 THEN texts[1]
    ELSE texts[1] \o "," \o JSONJoin(Tail(texts))

JSONMember(m) == JSONString(m.key) \o ":" \o m.value

JSONObject(members) ==
    "{" \o JSONJoin([i \in 1..Len(members) |-> JSONMember(members[i])]) \o "}"

(* AttachmentItemModel: fallback and text always, color with omitempty.    *)
AttachmentMembers(a) ==
    << [key |-> "fallback", value |-> JSONString(a.Fallback)],
       [key |-> "text",     value |-> JSONString(a.Text)] >>
    \o (IF a.Color = "" THEN <<>> ELSE << [key |-> "color", value |-> JSONString(a.Color)] >>)

JSONAttachments(items) ==
    "[" \o JSONJoin([i \in 1..Len(items) |-> JSONObject(AttachmentMembers(items[i]))]) \o "]"

(* RequestParams: the struct's fields in declaration order; attachments    *)
(* has omitempty, the four pointer fields have not.                        *)
RequestParamsMembers(rp) ==
    << [key |-> "text", value |-> JSONString(rp.Text)] >>
    \o (IF Len(rp.Attachments) = 0 THEN <<>>
        ELSE << [key |-> "attachments", value |-> JSONAttachments(rp.Attachments)] >>)
    \o << [key |-> "channel",    value |-> JSONPtr(rp.Channel)],
          [key |-> "username",   value |-> JSONPtr(rp.Username)],
          [key |-> "icon_emoji", value |-> JSONPtr(rp.EmojiIcon)],
          [key |-> "icon_url",   value |-> JSONPtr(rp.IconURL)] >>

(* json.Marshal(reqParams).  For this struct type encoding/json returns no *)
(* error; `fails` is the fault that drives the caller's err != nil branch. *)
jsonMarshal(rp, fails) ==
    IF fails THEN [bytes |-> "", err |-> ErrorsNew("json: marshal error")]
    ELSE [bytes |-> JSONObject(RequestParamsMembers(rp)), err |-> Nil]

----------------------------------------------------------------------------
(* CreatePayloadParam, in the order of its statements. *)

msgColor(c) ==
    IF c.IsBuildFailed
    THEN IF c.ColorOnError = "" THEN c.Color ELSE c.ColorOnError
    ELSE c.Color

(* Faulty variant: the on-error message is used whenever it is set. *)
msgText_IgnoresBuildStatus(c) ==
    IF c.MessageOnError = "" THEN c.Message ELSE c.MessageOnError

msgText(c) ==
    IF c.IsBuildFailed
    THEN IF c.MessageOnError = "" THEN c.Message ELSE c.MessageOnError
    ELSE c.Message

(* Faulty variant: attachment mode also fills the top-level text. *)
formattingBranch_TextInBothModes(c) ==
    IF c.FormattingMode = formattingModeAttachment
    THEN [ rp |-> [ZeroRequestParams EXCEPT
                    !.Text = msgText(c),
                    !.Attachments = << [Fallback |-> msgText(c), Text |-> msgText(c),
                                        Color |-> msgColor(c)] >>],
           exited |-> FALSE ]
    ELSE IF c.FormattingMode = formattingModeText
    THEN [ rp |-> [ZeroRequestParams EXCEPT !.Text = msgText(c)], exited |-> FALSE ]
    ELSE [ rp |-> ZeroRequestParams, exited |-> TRUE ]

(* The formatting-mode branch: the Attachments and Text fields.  The second *)
(* result tells whether the branch ended in os.Exit(1).                     *)
formattingBranch(c) ==
    IF c.FormattingMode = formattingModeAttachment
    THEN [ rp |-> [ZeroRequestParams EXCEPT
                    !.Attachments = << [Fallback |-> msgText(c), Text |-> msgText(c),
                                        Color |-> msgColor(c)] >>],
           exited |-> FALSE ]
    ELSE IF c.FormattingMode = formattingModeText
    THEN [ rp |-> [ZeroRequestParams EXCEPT !.Text = msgText(c)], exited |-> FALSE ]
    ELSE [ rp |-> ZeroRequestParams, exited |-> TRUE ]

reqChannel(c) == IF c.Channel # "" THEN Ptr(c.Channel) ELSE Nil

reqUsername(c) ==
    LET p == IF c.FromUsername # "" THEN Ptr(c.FromUsername) ELSE Nil
    IN  IF c.IsBuildFailed
        THEN IF c.FromUsernameOnError = "" THEN p ELSE Ptr(c.FromUsernameOnError)
        ELSE p

reqEmojiIcon(c) ==
    LET p == IF c.Emoji # "" THEN Ptr(c.Emoji) ELSE Nil
    IN  IF c.IsBuildFailed
        THEN IF c.EmojiOnError = "" THEN p ELSE Ptr(c.EmojiOnError)
        ELSE p

reqIconURL(c) ==
    LET p == IF c.IconURL # "" THEN Ptr(c.IconURL) ELSE Nil
    IN  IF c.IsBuildFailed
        THEN IF c.IconURLOnError = "" THEN p ELSE Ptr(c.IconURLOnError)
        ELSE p

(* Faulty variant: the emoji is kept beside the icon URL. *)
ignoreEmoji_KeepsEmoji(rp) == rp

(* "if Icon URL defined ignore the emoji input" *)
ignoreEmoji(rp) == IF rp.IconURL # Nil THEN [rp EXCEPT !.EmojiIcon = Nil] ELSE rp

(* The whole function: the struct built, whether os.Exit(1) was called, the *)
(* error json.Marshal gave, and the (string, error) pair returned.          *)
CreatePayloadParam(c, fails) ==
    LET branch == formattingBranch(c)
        rp     == ignoreEmoji([branch.rp EXCEPT !.Channel   = reqChannel(c),
                                                !.Username  = reqUsername(c),
                                                !.EmojiIcon = reqEmojiIcon(c),
                                                !.IconURL   = reqIconURL(c)])
        m      == jsonMarshal(rp, fails)
    IN  IF branch.exited
        THEN [ exited |-> TRUE, rp |-> branch.rp, marshalErr |-> Nil, str |-> "", err |-> Nil ]
        ELSE IF m.err # Nil
        THEN [ exited |-> FALSE, rp |-> rp, marshalErr |-> m.err, str |-> "", err |-> Nil ]
        ELSE [ exited |-> FALSE, rp |-> rp, marshalErr |-> Nil, str |-> m.bytes, err |-> Nil ]

----------------------------------------------------------------------------
(* main, one action per step. *)

Init ==
    /\ env \in Envs
    /\ configs = ZeroConfigs
    /\ pc = "start"
    /\ err = Nil
    /\ reqParams = ZeroRequestParams
    /\ marshalErr = Nil
    /\ payload = ""
    /\ posts = <<>>
    /\ resp = Nil
    /\ exitCode = Nil

(* configs := createConfigsModelFromEnvs(); configs.print() *)
MainLoadConfigs ==
    /\ pc = "start"
    /\ configs' = createConfigsModelFromEnvs(env)
    /\ pc' = "validate"
    /\ UNCHANGED <<env, err, reqParams, marshalErr, payload, posts, resp, exitCode>>

(* Faulty variant: the validation error is reported but main goes on. *)
MainValidate_NoExit ==
    /\ pc = "validate"
    /\ err' = validate(configs)
    /\ pc' = "build"
    /\ UNCHANGED <<env, configs, reqParams, marshalErr, payload, posts, resp, exitCode>>

(* if err := configs.validate(); err != nil { ...; os.Exit(1) } *)
MainValidate ==
    /\ pc = "validate"
    /\ err' = validate(configs)
    /\ IF err' # Nil
       THEN pc' = "exit" /\ exitCode' = Ptr(1)
       ELSE pc' = "build" /\ exitCode' = exitCode
    /\ UNCHANGED <<env, configs, reqParams, marshalErr, payload, posts, resp>>

(* reqParamsJSONString, err := CreatePayloadParam(configs)                  *)
(* if err != nil { ...; os.Exit(1) }                                        *)
MainCreatePayload(fails) ==
    /\ pc = "build"
    /\ LET r == CreatePayloadParam(configs, fails)
       IN  /\ reqParams' = r.rp
           /\ marshalErr' = r.marshalErr
           /\ IF r.exited \/ r.err # Nil
              THEN pc' = "exit" /\ exitCode' = Ptr(1) /\ payload' = payload
              ELSE pc' = "post" /\ exitCode' = exitCode /\ payload' = r.str
    /\ UNCHANGED <<env, configs, err, posts, resp>>

CreatePayload == MainCreatePayload(FALSE)

CreatePayloadMarshalFault == MainCreatePayload(TRUE)

(* resp, err := http.PostForm(requestURL, url.Values{"payload": ...})       *)
(* if err != nil { ...; os.Exit(1) }                                        *)
(* The request is issued; it ends in a transport error or in a response.    *)
MainPostForm ==
    /\ pc = "post"
    /\ posts' = Append(posts, [url |-> configs.WebhookURL, payload |-> payload])
    /\ \E transportError \in BOOLEAN :
          IF transportError
          THEN pc' = "exit" /\ exitCode' = Ptr(1) /\ resp' = resp
          ELSE /\ \E status \in Statuses : resp' = Ptr(status)
               /\ pc' = "response"
               /\ exitCode' = exitCode
    /\ UNCHANGED <<env, configs, err, reqParams, marshalErr, payload>>

(* Faulty variant: every status below 300 counts as success. *)
MainProcessResponse_Any2xx ==
    /\ pc = "response"
    /\ exitCode' = IF Deref(resp) >= 300 THEN Ptr(1) ELSE Ptr(0)
    /\ pc' = "exit"
    /\ UNCHANGED <<env, configs, err, reqParams, marshalErr, payload, posts, resp>>

(* Faulty variant: a non-200 response sends the payload again. *)
MainProcessResponse_Retry ==
    /\ pc = "response"
    /\ IF Deref(resp) # StatusOK
       THEN pc' = "post" /\ exitCode' = exitCode
       ELSE pc' = "exit" /\ exitCode' = Ptr(0)
    /\ UNCHANGED <<env, configs, err, reqParams, marshalErr, payload, posts, resp>>

(* body read; if resp.StatusCode != 200 { ...; os.Exit(1) }; os.Exit(0)     *)
MainProcessResponse ==
    /\ pc = "response"
    /\ exitCode' = IF Deref(resp) # StatusOK THEN Ptr(1) ELSE Ptr(0)
    /\ pc' = "exit"
    /\ UNCHANGED <<env, configs, err, reqParams, marshalErr, payload, posts, resp>>

Next ==
    \/ MainLoadConfigs
    \/ MainValidate
    \/ CreatePayload
    \/ MainPostForm
    \/ MainProcessResponse

Spec == Init /\ [][Next]_vars

(* The same program with json.Marshal allowed to return an error.          *)
NextMarshalFault ==
    \/ MainLoadConfigs
    \/ MainValidate
    \/ CreatePayload
    \/ CreatePayloadMarshalFault
    \/ MainPostForm
    \/ MainProcessResponse

SpecMarshalFault == Init /\ [][NextMarshalFault]_vars

(* CreatePayloadParam called directly on every settings value, validated   *)
(* or not.                                                                 *)
InitBuild ==
    /\ env \in Envs
    /\ configs = createConfigsModelFromEnvs(env)
    /\ pc = "build"
    /\ err = Nil
    /\ reqParams = ZeroRequestParams
    /\ marshalErr = Nil
    /\ payload = ""
    /\ posts = <<>>
    /\ resp = Nil
    /\ exitCode = Nil

NextBuild == CreatePayload

SpecBuild == InitBuild /\ [][NextBuild]_vars

----------------------------------------------------------------------------
(* Vocabulary of the properties. *)

(* The override rule: the on-error variant iff the build failed and that   *)
(* variant is non-empty, otherwise the normal variant.                     *)
Finalized(normal, onError, failed) == IF failed /\ onError # "" THEN onError ELSE normal

(* An optional field: carried iff its value is non-empty. *)
OptOf(s) == IF s = "" THEN Nil ELSE Ptr(s)

(* CreatePayloadParam has returned a payload to main. *)
PayloadBuilt == pc \in {"post", "response"} \/ (pc = "exit" /\ posts # <<>>)

(* The settings the environment resolves to pass validation. *)
SettingsValid ==
    /\ Getenv(env, "webhook_url") # ""
    /\ Getenv(env, "message") # ""
    /\ Getenv(env, "color") # ""
    /\ Getenv(env, "formatting_mode") \in {"text", "attachment"}

HasKey(members, k) == \E i \in 1..Len(members) : members[i].key = k

ValueOf(members, k) == members[CHOOSE i \in 1..Len(members) : members[i].key = k].value

UnrecognizedModes == { "markdown", "Text", "html" }

----------------------------------------------------------------------------
(* C2: validate() returns no error iff webhook URL, message and color are  *)
(* non-empty and the formatting mode is 'text' or 'attachment'; otherwise  *)
(* it returns exactly one error, that of the first failing check in the    *)
(* order webhook URL, message, color, mode empty, mode unrecognized; each  *)
(* of the five errors occurs for its own condition only, and the           *)
(* unrecognized-mode error carries the offending value.                    *)
C2_ValidateFirstFailure ==
    pc \notin {"start", "validate"} =>
        LET c == configs
            okURL   == c.WebhookURL # ""
            okMsg   == c.Message # ""
            okColor == c.Color # ""
            okMode  == c.FormattingMode \in {"text", "attachment"}
        IN  /\ (err = Nil) <=> (okURL /\ okMsg /\ okColor /\ okMode)
            /\ err # Nil => Len(err) = 1
            /\ (err = Ptr("No Webhook URL parameter specified!")) <=> ~okURL
            /\ (err = Ptr("No Message parameter specified!")) <=> (okURL /\ ~okMsg)
            /\ (err = Ptr("No Color parameter specified!")) <=> (okURL /\ okMsg /\ ~okColor)
            /\ (err = Ptr("No FormattingMode parameter specified!"))
                   <=> (okURL /\ okMsg /\ okColor /\ c.FormattingMode = "")
            /\ (err = Ptr("Invalid FormattingMode: " \o c.FormattingMode))
                   <=> (okURL /\ okMsg /\ okColor /\ ~okMode /\ c.FormattingMode # "")
            /\ \A m \in UnrecognizedModes :
                   m # c.FormattingMode => err # Ptr("Invalid FormattingMode: " \o m)

(* An unrecognized mode reached the last check and was reported by value. *)
C2_Witness ==
    /\ pc = "exit"
    /\ configs.WebhookURL # "" /\ configs.Message # "" /\ configs.Color # ""
    /\ configs.FormattingMode = "markdown"
    /\ err = Ptr("Invalid FormattingMode: markdown")

(* C3: whenever validation fails, the process exits with code 1, the       *)
(* payload is never built and no HTTP POST is ever issued.                 *)
C3_InvalidSettingsNoPost ==
    ~SettingsValid =>
        /\ posts = <<>>
        /\ resp = Nil
        /\ payload = "" /\ reqParams = ZeroRequestParams
        /\ pc \in {"start", "validate", "exit"}
        /\ pc = "exit" => exitCode = Ptr(1) /\ err # Nil
        /\ pc # "exit" => exitCode = Nil

(* A run with a URL and a message but no color has ended. *)
C3_Witness ==
    /\ pc = "exit" /\ exitCode = Ptr(1)
    /\ configs.WebhookURL # "" /\ configs.Message # "" /\ configs.Color = ""
    /\ configs.FormattingMode = "text"
    /\ posts = <<>>

(* C7: the exit code is 0 iff the POST completed with status 200; after a  *)
(* transport error or any other status it is 1; no other exit code occurs. *)
C7_ExitCode ==
    /\ pc # "exit" => exitCode = Nil
    /\ pc = "exit" =>
           /\ exitCode \in {Ptr(0), Ptr(1)}
           /\ (exitCode = Ptr(0)) <=> (Len(posts) = 1 /\ resp = Ptr(200))
           /\ (posts # <<>> /\ resp = Nil) => exitCode = Ptr(1)
           /\ (resp # Nil /\ resp # Ptr(200)) => exitCode = Ptr(1)

(* A 2xx answer other than 200 ended the run with exit code 1. *)
C7_Witness == pc = "exit" /\ resp = Ptr(201) /\ exitCode = Ptr(1) /\ Len(posts) = 1

(* C9: at most one POST is issued, only after validation succeeded and the *)
(* payload was built; after a transport error or a non-200 response the    *)
(* process is over and sends nothing again.                                *)
C9_AtMostOnePost ==
    /\ Len(posts) <= 1
    /\ Len(posts) = 1 =>
           /\ SettingsValid /\ err = Nil
           /\ reqParams # ZeroRequestParams
           /\ posts[1] = [url |-> configs.WebhookURL, payload |-> payload]
           /\ pc \in {"response", "exit"}
    /\ (resp # Nil /\ resp # Ptr(200)) => pc \in {"response", "exit"}
    /\ pc = "exit" => ~ENABLED Next

(* A run that met a transport error has ended having posted once. *)
C9_Witness == pc = "exit" /\ Len(posts) = 1 /\ resp = Nil /\ exitCode = Ptr(1)

(* C10: the build-failed flag is false iff the build-status indicator      *)
(* equals "0"; for every other value, an unset or empty indicator          *)
(* included, it is true, and the on-error variants are then selected.      *)
C10_BuildFailedFlag ==
    pc # "start" =>
        /\ (configs.IsBuildFailed = FALSE) <=> (env.STEPLIB_BUILD_STATUS = Ptr("0"))
        /\ env.STEPLIB_BUILD_STATUS \in {Nil, Ptr("")} => configs.IsBuildFailed = TRUE
        /\ (PayloadBuilt /\ env.STEPLIB_BUILD_STATUS # Ptr("0")
                /\ configs.MessageOnError # "" /\ configs.FormattingMode = "text")
               => reqParams.Text = configs.MessageOnError

(* With the indicator unset the payload carries the on-error message. *)
C10_Witness ==
    /\ PayloadBuilt
    /\ env.STEPLIB_BUILD_STATUS = Nil
    /\ configs.IsBuildFailed
    /\ reqParams.Text = "Build FAILED"

----------------------------------------------------------------------------
(* The finalized value of each attribute of the current settings. *)

FinalColor == Finalized(configs.Color, configs.ColorOnError, configs.IsBuildFailed)

FinalMessage == Finalized(configs.Message, configs.MessageOnError, configs.IsBuildFailed)

FinalUsername ==
    Finalized(configs.FromUsername, configs.FromUsernameOnError, configs.IsBuildFailed)

FinalEmoji == Finalized(configs.Emoji, configs.EmojiOnError, configs.IsBuildFailed)

FinalIconURL == Finalized(configs.IconURL, configs.IconURLOnError, configs.IsBuildFailed)

(* The message and the color the payload carries, where it carries them. *)
CarriesMessage(msg) ==
    IF configs.FormattingMode = "attachment"
    THEN Len(reqParams.Attachments) = 1
         /\ reqParams.Attachments[1].Text = msg /\ reqParams.Attachments[1].Fallback = msg
    ELSE reqParams.Text = msg

CarriesColor(col) ==
    configs.FormattingMode = "attachment" => reqParams.Attachments[1].Color = col

(* The settings with every on-error variant cleared. *)
WithoutOnError(c) ==
    [c EXCEPT !.ColorOnError = "", !.MessageOnError = "", !.FromUsernameOnError = "",
              !.EmojiOnError = "", !.IconURLOnError = ""]

(* C1 as stated: for every settings value and both values of the           *)
(* build-failed flag, the payload uses for each of color, message text,    *)
(* username, emoji icon and icon URL the on-error variant iff the build    *)
(* failed and that variant is non-empty, otherwise the normal variant;     *)
(* with build-failed = false the payload does not depend on the on-error   *)
(* variants.                                                               *)
C1_AsStated ==
    PayloadBuilt =>
        /\ CarriesColor(FinalColor)
        /\ CarriesMessage(FinalMessage)
        /\ reqParams.Username = OptOf(FinalUsername)
        /\ reqParams.EmojiIcon = OptOf(FinalEmoji)
        /\ reqParams.IconURL = OptOf(FinalIconURL)
        /\ ~configs.IsBuildFailed =>
               payload = CreatePayloadParam(WithoutOnError(configs), FALSE).str

(* C1 as amended: the same for color (carried in attachment mode only),    *)
(* message text, username and icon URL; the emoji icon follows the rule    *)
(* when the finalized icon URL is empty, and otherwise the payload carries *)
(* no emoji at all, neither the on-error nor the normal one.               *)
C1_OverrideRule ==
    PayloadBuilt =>
        /\ CarriesColor(FinalColor)
        /\ CarriesMessage(FinalMessage)
        /\ reqParams.Username = OptOf(FinalUsername)
        /\ reqParams.IconURL = OptOf(FinalIconURL)
        /\ reqParams.EmojiIcon = IF FinalIconURL = "" THEN OptOf(FinalEmoji) ELSE Nil
        /\ payload = JSONObject(RequestParamsMembers(reqParams))
        /\ ~configs.IsBuildFailed =>
               payload = CreatePayloadParam(WithoutOnError(configs), FALSE).str

(* A failed build with every on-error variant set and no icon URL: all     *)
(* five on-error variants are in the payload.                              *)
C1_Witness ==
    /\ PayloadBuilt
    /\ configs.IsBuildFailed
    /\ configs.FormattingMode = "attachment"
    /\ configs.Color = "good" /\ configs.Message = "Build OK"
    /\ configs.FromUsername = "bitrise" /\ configs.Emoji = ":rocket:"
    /\ configs.IconURL = "https://example.com/ok.png"
    /\ reqParams.Attachments =
           << [Fallback |-> "Build FAILED", Text |-> "Build FAILED", Color |-> "danger"] >>
    /\ reqParams.Username = Ptr("bitrise-failed")
    /\ reqParams.IconURL = Ptr("https://example.com/failed.png")
    /\ configs.EmojiOnError = ":boom:" /\ reqParams.EmojiIcon = Nil

----------------------------------------------------------------------------
(* The members of the JSON object sent, and the settings of the example:   *)
(* mode text, message "Build OK", color "good", build not failed, no       *)
(* channel, username, emoji or icon URL.                                   *)

PayloadMembers == RequestParamsMembers(reqParams)

OptionalFields ==
    << [key |-> "channel",    field |-> reqParams.Channel,   final |-> configs.Channel],
       [key |-> "username",   field |-> reqParams.Username,  final |-> FinalUsername],
       [key |-> "icon_emoji", field |-> reqParams.EmojiIcon, final |-> FinalEmoji],
       [key |-> "icon_url",   field |-> reqParams.IconURL,   final |-> FinalIconURL] >>

ExampleBuildOK ==
    /\ configs.FormattingMode = "text"
    /\ configs.Message = "Build OK"
    /\ configs.Color = "good"
    /\ ~configs.IsBuildFailed
    /\ configs.Channel = "" /\ configs.FromUsername = ""
    /\ configs.Emoji = "" /\ configs.IconURL = ""

(* C4 as stated: in the serialized payload each of channel, username,      *)
(* icon_emoji and icon_url is present only when its finalized value is     *)
(* non-empty and is omitted from the JSON when it is empty; the example's  *)
(* payload is exactly {"text":"Build OK"}.                                 *)
C4_AsStated ==
    PayloadBuilt =>
        /\ payload = JSONObject(PayloadMembers)
        /\ \A i \in 1..Len(OptionalFields) :
               LET f == OptionalFields[i]
               IN  /\ HasKey(PayloadMembers, f.key) => f.final # ""
                   /\ f.final = "" => ~HasKey(PayloadMembers, f.key)
        /\ ExampleBuildOK => payload = "{\"text\":\"Build OK\"}"

(* C4 as amended: each of the four fields holds a string in the serialized *)
(* payload only when its finalized value is non-empty; when the finalized  *)
(* value is empty the field is serialized as JSON null, never as an empty  *)
(* string and never left out; the example's payload is exactly             *)
(* {"text":"Build OK","channel":null,"username":null,"icon_emoji":null,    *)
(* "icon_url":null}.                                                       *)
C4_EmptyFieldsAreNull ==
    PayloadBuilt =>
        /\ payload = JSONObject(PayloadMembers)
        /\ \A i \in 1..Len(OptionalFields) :
               LET f == OptionalFields[i]
                   v == ValueOf(PayloadMembers, f.key)
               IN  /\ HasKey(PayloadMembers, f.key)
                   /\ v # JSONString("")
                   /\ v # "null" => (f.final # "" /\ v = JSONString(f.final))
                   /\ f.final = "" => v = "null"
        /\ ExampleBuildOK =>
               payload = "{\"text\":\"Build OK\",\"channel\":null,\"username\":null,"
                         \o "\"icon_emoji\":null,\"icon_url\":null}"

(* The example's settings were validated and their payload was posted. *)
C4_Witness ==
    /\ pc = "response"
    /\ ExampleBuildOK
    /\ posts[1].payload = "{\"text\":\"Build OK\",\"channel\":null,\"username\":null,"
                          \o "\"icon_emoji\":null,\"icon_url\":null}"

(* C5: for settings that pass validation exactly one of top-level text and *)
(* attachments is populated, the one the formatting mode names: in         *)
(* attachment mode one attachment whose fallback and text are the          *)
(* finalized message and whose color is the finalized color, with an empty *)
(* top-level text; in text mode the finalized message as top-level text    *)
(* and no attachments.                                                     *)
C5_TextOrAttachments ==
    (PayloadBuilt /\ SettingsValid) =>
        /\ payload = JSONObject(PayloadMembers)
        /\ (reqParams.Text # "") # (reqParams.Attachments # <<>>)
        /\ configs.FormattingMode = "attachment" =>
               /\ reqParams.Attachments =
                      << [Fallback |-> FinalMessage, Text |-> FinalMessage,
                          Color |-> FinalColor] >>
               /\ reqParams.Text = ""
               /\ ValueOf(PayloadMembers, "text") = JSONString("")
               /\ ValueOf(PayloadMembers, "attachments") =
                      "[{\"fallback\":" \o JSONString(FinalMessage)
                      \o ",\"text\":" \o JSONString(FinalMessage)
                      \o ",\"color\":" \o JSONString(FinalColor) \o "}]"
        /\ configs.FormattingMode = "text" =>
               /\ reqParams.Text = FinalMessage
               /\ reqParams.Attachments = <<>>
               /\ ValueOf(PayloadMembers, "text") = JSONString(FinalMessage)
               /\ ~HasKey(PayloadMembers, "attachments")
        /\ configs.FormattingMode \in {"text", "attachment"}

(* A failed build in attachment mode: one attachment with the on-error     *)
(* message and color.                                                      *)
C5_Witness ==
    /\ PayloadBuilt /\ SettingsValid
    /\ configs.FormattingMode = "attachment"
    /\ configs.IsBuildFailed
    /\ reqParams.Text = ""
    /\ reqParams.Attachments =
           << [Fallback |-> "Build FAILED", Text |-> "Build FAILED", Color |-> "danger"] >>

(* C6: for every settings value and both values of the build-failed flag   *)
(* the payload never carries both an icon URL and an emoji icon: whenever  *)
(* the finalized icon URL is non-empty the payload holds that icon URL and *)
(* no emoji (a nil EmojiIcon, serialized without an emoji value), whether  *)
(* or not an emoji, normal or on-error, was resolved.                      *)
C6_IconURLOverEmoji ==
    PayloadBuilt =>
        /\ payload = JSONObject(PayloadMembers)
        /\ ~(reqParams.IconURL # Nil /\ reqParams.EmojiIcon # Nil)
        /\ ~(ValueOf(PayloadMembers, "icon_url") # "null"
                /\ ValueOf(PayloadMembers, "icon_emoji") # "null")
        /\ FinalIconURL # "" =>
               /\ reqParams.IconURL = Ptr(FinalIconURL)
               /\ reqParams.EmojiIcon = Nil
               /\ ValueOf(PayloadMembers, "icon_url") = JSONString(FinalIconURL)
               /\ ValueOf(PayloadMembers, "icon_emoji") = "null"

(* A failed build with both on-error emoji and on-error icon URL set. *)
C6_Witness ==
    /\ PayloadBuilt
    /\ configs.IsBuildFailed
    /\ configs.Emoji = ":rocket:" /\ configs.EmojiOnError = ":boom:"
    /\ configs.IconURLOnError = "https://example.com/failed.png"
    /\ reqParams.IconURL = Ptr("https://example.com/failed.png")
    /\ reqParams.EmojiIcon = Nil

(* C8: if JSON serialization fails inside CreatePayloadParam the process   *)
(* exits with code 1 and no HTTP POST is issued: an empty payload is never *)
(* sent to the webhook.                                                    *)
C8_MarshalFailureIsFatal ==
    marshalErr # Nil =>
        /\ posts = <<>>
        /\ pc = "exit" => exitCode = Ptr(1)

(* What happens instead: the empty payload has been posted. *)
C8_EmptyPayloadPosted ==
    /\ marshalErr # Nil
    /\ Len(posts) = 1 /\ posts[1].payload = ""
    /\ pc = "exit" /\ exitCode = Ptr(0)

====
